---- MODULE Spec2Model ----
(***************************************************************************)
(* Build lifecycle of the alpaca package builder (tools/aleya/package.py):  *)
(* Package.build, the binary cache under artifacts/, source acquisition    *)
(* and the recipe phases run through ShellCommand.exec.                    *)
(*                                                                         *)
(* The file system of one package workspace is state: the source, build,   *)
(* package and artifacts directories.  A build attempt is a process whose  *)
(* position `pc` walks the statements of Package.build.  Helpers of        *)
(* utils.py are modelled by their contract (the repository's utils module  *)
(* is not part of the sources at hand).                                    *)
(*                                                                         *)
(* One ShellCommand.exec call (tools/aleya/shell_command.py) is modelled   *)
(* with its child process, its two pipes and its two reader threads; the   *)
(* fingerprint and the environment of a Package are computed from option   *)
(* dictionaries that keep their insertion order.                           *)
(***************************************************************************)
EXTENDS Integers, Sequences, FiniteSets, TLC

VARIABLES
    recipeFile,         \* content of the recipe script on disk (description.recipe_path)
    options,            \* Package.options: dict[str, bool]
    sources,            \* description.sources
    sha256sums,         \* description.sha256sums, index-aligned with sources
    sourceDir,          \* <workdir>/source
    buildDir,           \* <workdir>/build
    packageDir,         \* <workdir>/package
    artifactsDir,       \* <workdir>/artifacts
    pc,                 \* per build invocation: the statement of Package.build it is at
    build_from_source,  \* per build invocation: the argument of build()
    require_build,      \* per build invocation: local of build()
    artifact_file_path, \* per build invocation: local of build()
    idx,                \* per build invocation: loop variable i of _handle_sources
    output_archive_file,\* per build invocation: local of _handle_package
    error,              \* per build invocation: the exception that ended it ("" if none)
    phases,             \* per build invocation: the _call_script_function calls made, in order
    acquired,           \* per build invocation: the _download_source_file calls made, in order
    restored,           \* per build invocation: the extract_tar of the cached archive, if made
    cache,              \* per build invocation: what the artifacts directory held at the cache check
    before,             \* per build invocation: the artifacts directory's files when build() was called
    stored,             \* the archive the last completed store step wrote, while it is untouched
    builds,             \* number of build() invocations started
    file_hash,          \* per build invocation: the checksum write_file_hash computed
    clobbered,          \* per build invocation: whether another one emptied its source directory
    interrupted,        \* the archive an invocation wrote before it was stopped short of the sidecar
    hits,               \* number of builds in a row that took the cache-hit path
    exec_pc,            \* ShellCommand.exec: the statement the calling thread is at
    exec_args,          \* ShellCommand.exec: print_output, throw_on_error
    process,            \* the child: what it has still to write, whether it exited, its exit code
    pipes,              \* process.stdout / process.stderr: the lines written and not yet read
    threads,            \* stdout_thread / stderr_thread: position in _stream_output and `line`
    outputString,       \* stdout_str / stderr_str
    destination,        \* sys.stdout / sys.stderr: the text buffered and the text on the device
    error_code,         \* ShellCommand.exec: local error_code (-1 before process.wait() returned)
    exec_result,        \* ShellCommand.exec: what the call gave back to its caller
    written,            \* per stream: every line the child wrote
    blocked,            \* whether the child ever had to wait for room in a pipe
    packages,           \* two Package objects of one recipe: their options
    digests,            \* per Package object: the values _compute_binary_hash returned, in order
    environments,       \* per Package object: the last value of _get_environment_variables
    disk,               \* the recipe files that exist under the repositories
    latest_files,       \* the `latest` files that exist under the repositories, with their text
    manager_packages,   \* PackageManager.packages: the Package object found for an atom
    objects,            \* number of Package objects constructed by the PackageManager
    find_result         \* the last find_package call: its arguments and how it ended

\* the build lifecycle of one package
buildVars == <<recipeFile, options, sources, sha256sums, sourceDir, buildDir, packageDir,
               artifactsDir, pc, build_from_source, require_build, artifact_file_path,
               idx, output_archive_file, error, phases, acquired, restored, cache, before,
               stored, builds, file_hash, clobbered, interrupted, hits>>

\* one ShellCommand.exec call
execVars == <<exec_pc, exec_args, process, pipes, threads, outputString, destination,
              error_code, exec_result, written, blocked>>

\* the option dictionaries of Package objects and what is computed from them
optionVars == <<packages, digests, environments>>

\* the PackageManager and the repositories it searches
findVars == <<disk, latest_files, manager_packages, objects, find_result>>

vars == <<buildVars, execVars, optionVars, findVars>>

fsVars == <<sourceDir, buildDir, packageDir, artifactsDir>>
descVars == <<sources, sha256sums>>
confVars == <<recipeFile, options>>
\* the locals of build() and of the methods it calls
localVars == <<build_from_source, require_build, artifact_file_path, idx, output_archive_file>>
\* what a build invocation has done so far
logVars == <<phases, acquired, restored, cache, before>>

(***************************************************************************)
(* Bounds of the model.                                                    *)
(***************************************************************************)
MaxSources == 2
MaxBuilds == 3
\* options a Package object holds at most
MaxOptions == 2
\* calls of _compute_binary_hash on one Package object
MaxCalls == 2
\* lines a child process writes at most, over both streams
MaxLines == 3
\* lines a pipe holds before the writer has to wait
PipeCapacity == 1
MaxFiles == 2

\* The build() invocations: one in Spec (builds of one package run one after another).
Builders == {1, 2}

(***************************************************************************)
(* Configuration (configuration.py) and the inputs the model draws from.   *)
(***************************************************************************)
\* config.target_architecture
target_architecture == "x86_64"

\* config.repositories, in configured order
repositories == <<"repo1", "repo2">>

\* Recipe scripts: their text, and the phase functions each declares.
Recipes == {"full-recipe", "bare-recipe"}

PhaseNames == <<"handle_sources", "handle_build", "handle_check", "handle_package">>

Declares(recipe) ==
    IF recipe = "full-recipe"
    THEN {"handle_sources", "handle_build", "handle_check", "handle_package"}
    ELSE {}

\* Option names, listed in the order Python compares strings ("a" < "aTrueb" < "b").
OptionNames == <<"a", "aTrueb", "b">>

\* Package.__init__: self.options = {}
NoOptions == [k \in {} |-> TRUE]

SeqsUpTo(S, n) == UNION {[1..k -> S] : k \in 0..n}

\* Package.options is a dict[str, bool]: its items <<key, value>> in insertion order,
\* no key twice (the empty dict is NoOptions)
OptionDicts ==
    {d \in SeqsUpTo({OptionNames[k] : k \in 1..Len(OptionNames)} \X BOOLEAN, MaxOptions) :
        \A i, j \in 1..Len(d) : i # j => d[i][1] # d[j][1]}

\* dict.keys(): the keys in insertion order
Keys(d) == [i \in 1..Len(d) |-> d[i][1]]

\* d[key]
Get(d, key) == d[CHOOSE i \in 1..Len(d) : d[i][1] = key][2]

\* str.lower()
lower(key) == IF key = "aTrueb" THEN "atrueb" ELSE key

\* Source locators a recipe may declare.
Locators ==
    {"https://host/a.tar.xz", "files/a.tar.xz", "b.patch", "c.patch", "d.tar.xz", "e.patch"}

\* utils.is_url
is_url(source) == source = "https://host/a.tar.xz"

\* os.path.basename
basename(source) ==
    IF source \in {"https://host/a.tar.xz", "files/a.tar.xz"} THEN "a.tar.xz" ELSE source

\* utils.is_tarfile: the .tar.xz files are tar archives, the patches are not
is_tarfile(name) == name \in {"a.tar.xz", "d.tar.xz"}

\* Where a copy of a source may come from; a file's content is named by its origin.
Origins == {"url", "given", "recipe", "repo1", "repo2"}

\* The file system outside the workspace, as _download_source_file asks it:
\* given = is_file_path(source), inRecipe = is_file_path(join(recipe directory, source)),
\* inRepos = the repositories r with is_file_path(join(r, source)).
Outside(source) ==
    CASE source = "https://host/a.tar.xz" ->
            [given |-> FALSE, inRecipe |-> FALSE, inRepos |-> {"repo1"}]
      [] source = "files/a.tar.xz" ->
            [given |-> TRUE, inRecipe |-> TRUE, inRepos |-> {"repo2"}]
      [] source = "b.patch" ->
            [given |-> FALSE, inRecipe |-> TRUE, inRepos |-> {"repo1"}]
      [] source = "c.patch" ->
            [given |-> FALSE, inRecipe |-> FALSE, inRepos |-> {"repo1", "repo2"}]
      [] source = "d.tar.xz" ->
            [given |-> FALSE, inRecipe |-> FALSE, inRepos |-> {"repo2"}]
      [] OTHER ->
            [given |-> FALSE, inRecipe |-> FALSE, inRepos |-> {}]

\* the origins that hold a copy of the source
WhereFound(source) ==
    (IF is_url(source) THEN {"url"} ELSE {})
        \cup (IF Outside(source).given THEN {"given"} ELSE {})
        \cup (IF Outside(source).inRecipe THEN {"recipe"} ELSE {})
        \cup Outside(source).inRepos

\* What the recipe's handle_package may install.
BuildOutputs == {"out1", "out2"}

(***************************************************************************)
(* Files and directories.                                                  *)
(***************************************************************************)
NoFiles == [n \in {} |-> ""]

NoDir == [exists |-> FALSE, files |-> NoFiles]

EmptyDir == [exists |-> TRUE, files |-> NoFiles]

\* os.path.exists of a file in a directory
Exists(dir, name) == dir.exists /\ name \in DOMAIN dir.files

\* writing (or overwriting) one file
WriteFile(dir, name, content) ==
    [exists |-> TRUE,
     files |-> [n \in DOMAIN dir.files \cup {name} |->
                    IF n = name THEN content ELSE dir.files[n]]]

\* removing one file
RemoveFile(dir, name) ==
    [dir EXCEPT !.files = [n \in DOMAIN dir.files \ {name} |-> dir.files[n]]]

\* SHA-256 of a file's content, taken as injective
Sha256(content) == <<"sha256", content>>

\* the sidecar checksum file of an archive
SidecarPath(path) == path \o ".sha256"

\* utils.create_empty_directory: creates the directory when it is missing;
\* an existing directory keeps its content
create_empty_directory(dir) == IF dir.exists THEN dir ELSE EmptyDir

\* utils.extract_tar: the members of the archive land in the directory
extract_tar(members, dir) ==
    [exists |-> TRUE,
     files |-> [n \in DOMAIN dir.files \cup DOMAIN members |->
                    IF n \in DOMAIN members THEN members[n] ELSE dir.files[n]]]

\* utils.compress_tar: the archive holds the directory's files
compress_tar(dir) == dir.files

\* utils.check_file_hash_from_file: the sidecar exists and matches the archive
check_file_hash_from_file(dir, path) ==
    /\ Exists(dir, path)
    /\ Exists(dir, SidecarPath(path))
    /\ dir.files[SidecarPath(path)] = Sha256(dir.files[path])

\* utils.check_file_hash_from_string
check_file_hash_from_string(dir, name, sha256sum) ==
    /\ Exists(dir, name)
    /\ Sha256(dir.files[name]) = sha256sum

(***************************************************************************)
(* Package._compute_binary_hash and the archive path.                      *)
(***************************************************************************)
\* Python's str(bool)
Str(v) == IF v THEN "True" ELSE "False"

\* the place of a key in the order of Python's string comparison
KeyRank(key) == CHOOSE k \in 1..Len(OptionNames) : OptionNames[k] = key

\* sorted(): a new list, ascending
RECURSIVE Insert(_, _)
Insert(key, s) ==
    IF s = <<>> THEN <<key>>
    ELSE IF KeyRank(key) <= KeyRank(Head(s)) THEN <<key>> \o s
    ELSE <<Head(s)>> \o Insert(key, Tail(s))

RECURSIVE sorted(_)
sorted(keys) == IF keys = <<>> THEN <<>> ELSE Insert(Head(keys), sorted(Tail(keys)))

\* SortedKeys without the sort: the keys as the dict iterates them
SortedKeys_insertion_order(opts) == Keys(opts)

\* line 342: sorted(self.options.keys())
SortedKeys(opts) == sorted(Keys(opts))

\* the bytes the loop of _compute_binary_hash feeds for the options
RECURSIVE OptionBytes(_, _)
OptionBytes(opts, keys) ==
    IF keys = <<>> THEN ""
    ELSE Head(keys) \o Str(Get(opts, Head(keys))) \o OptionBytes(opts, Tail(keys))

\* everything fed to hash_object.update, in order
HashInput(recipe, opts) ==
    recipe \o target_architecture \o OptionBytes(opts, SortedKeys(opts))

\* hexdigest(): the digest, taken as injective on its input
compute_binary_hash(recipe, opts) == "sha256:" \o HashInput(recipe, opts)

get_binary_archive_path(recipe, opts) == compute_binary_hash(recipe, opts) \o ".tar.xz"

(***************************************************************************)
(* Package._get_environment_variables                                      *)
(***************************************************************************)
\* the variables set whatever the options are
FixedVariables ==
    {"working_directory", "source_directory", "build_directory", "package_directory",
     "target_architecture", "target_platform", "package_atom", "package_version",
     "package_build", "c_flags", "cpp_flags", "ld_flags", "make_flags", "ninja_flags"}

\* lines 305-306: the variables the loop over self.options.keys() sets
OptionVariables(opts) == {"option_" \o lower(Keys(opts)[i]) : i \in 1..Len(opts)}

\* the dictionary returned: the option variables are "1", the others are named by
\* where their value comes from
get_environment_variables(opts) ==
    [name \in OptionVariables(opts) \cup FixedVariables |->
        IF name \in OptionVariables(opts) THEN "1"
        ELSE IF name = "target_architecture" THEN target_architecture
        ELSE "config:" \o name]

(***************************************************************************)
(* Package._create_working_directories                                     *)
(***************************************************************************)
\* create_working_directories without the removal of the source directory
create_working_directories_keep_source ==
    /\ sourceDir' = create_empty_directory(sourceDir)
    /\ buildDir' = create_empty_directory(buildDir)
    /\ packageDir' = create_empty_directory(packageDir)
    /\ artifactsDir' = [artifactsDir EXCEPT !.exists = TRUE]

create_working_directories ==
    /\ sourceDir' = create_empty_directory(NoDir)
    /\ buildDir' = create_empty_directory(buildDir)
    /\ packageDir' = create_empty_directory(packageDir)
    /\ artifactsDir' = [artifactsDir EXCEPT !.exists = TRUE]

(***************************************************************************)
(* ShellCommand.exec, as Package._call_script_function uses it: the exit   *)
(* code of the shell that sources the recipe and calls the function when   *)
(* the recipe declares it.                                                 *)
(***************************************************************************)
\* Outcomes with the function called whether the recipe declares it or not: the
\* shell does not find it and exits non-zero
Outcomes_call_undeclared(recipe, function_name) ==
    IF function_name \in Declares(recipe) THEN {"ok", "fail"} ELSE {"fail"}

\* what the invoked shell may do for a phase function of a recipe
Outcomes(recipe, function_name) ==
    IF function_name \in Declares(recipe) THEN {"ok", "fail"} ELSE {"skipped"}

\* process.wait()
ExitCode(outcome) == IF outcome = "fail" THEN 1 ELSE 0

\* ExecRaises with throw_on_error not honoured
ExecNeverRaises(throw_on_error, code) == FALSE

\* ExecRaises that raises on every non-zero exit code
ExecRaises_on_any_error(throw_on_error, code) == code # 0

\* ShellCommand.exec: raises when throw_on_error is set and the exit code is not zero
ExecRaises(throw_on_error, code) == throw_on_error /\ code # 0

\* Package._call_script_function: always passes throw_on_error=True
call_script_function_raises(outcome) == ExecRaises(TRUE, ExitCode(outcome))

(***************************************************************************)
(* ShellCommand.exec, statement by statement: the calling thread, the      *)
(* child process, the two pipes and the two threads running                *)
(* _stream_output.  Line k is the k-th line the child writes; every line   *)
(* ends in a newline, except that the last one may lack it.                *)
(***************************************************************************)
Streams == {"stdout", "stderr"}

\* what `bash -c command` does: the streams it writes its lines to, in order, and
\* the code it exits with
Commands ==
    {[script |-> s, exit_code |-> c] : s \in SeqsUpTo(Streams, MaxLines), c \in {0, 1}}

NoThread == [pc |-> "created", line |-> 0]

NoResult == [kind |-> "none"]

\* sys.stdout / sys.stderr as a TextIOWrapper: the text written and not yet flushed,
\* and the text that reached the device
TextIO(line_buffering) == [line_buffering |-> line_buffering, buffer |-> <<>>, device |-> <<>>]

\* TextIO.flush()
flush(io) == [io EXCEPT !.buffer = <<>>, !.device = @ \o io.buffer]

\* print(line, end="", file=io): a line-buffered stream flushes on a newline
print(io, line, newline) ==
    IF io.line_buffering /\ newline
    THEN flush([io EXCEPT !.buffer = Append(@, line)])
    ELSE [io EXCEPT !.buffer = Append(@, line)]

\* no exec call in progress
ExecIdle ==
    /\ exec_pc = "idle"
    /\ exec_args = [print_output |-> FALSE, throw_on_error |-> FALSE]
    /\ process = [state |-> "none", todo |-> <<>>, n |-> 0, partial |-> 0, exit_code |-> 0]
    /\ pipes = [s \in Streams |-> <<>>]
    /\ threads = [s \in Streams |-> NoThread]
    /\ outputString = [s \in Streams |-> <<>>]
    /\ destination = [s \in Streams |-> TextIO(TRUE)]
    /\ error_code = -1
    /\ exec_result = NoResult
    /\ written = [s \in Streams |-> <<>>]
    /\ blocked = FALSE

\* ShellCommand.exec(command, print_output=..., throw_on_error=...) is called;
\* sys.stderr is line-buffered, sys.stdout is when it is a terminal; `partial` is the
\* number of the line that lacks its newline (0: none)
ExecCalled ==
    /\ exec_pc = "popen"
    /\ exec_args \in [print_output : BOOLEAN, throw_on_error : BOOLEAN]
    /\ \E c \in Commands :
          \E partial \in {0, Len(c.script)} :
              process = [state |-> "none", todo |-> c.script, n |-> 0,
                         partial |-> partial, exit_code |-> c.exit_code]
    /\ pipes = [s \in Streams |-> <<>>]
    /\ threads = [s \in Streams |-> NoThread]
    /\ outputString = [s \in Streams |-> <<>>]
    /\ \E isatty \in BOOLEAN :
          destination = [s \in Streams |-> TextIO(s = "stderr" \/ isatty)]
    /\ error_code = -1
    /\ exec_result = NoResult
    /\ written = [s \in Streams |-> <<>>]
    /\ blocked = FALSE

ExecGoto(label) == exec_pc' = label

\* lines 58-70: subprocess.Popen(...), the two StringIO
Popen ==
    /\ exec_pc = "popen"
    /\ process' = [process EXCEPT !.state = "running"]
    /\ ExecGoto("start_stdout")
    /\ UNCHANGED <<exec_args, pipes, threads, outputString, destination, error_code,
                   exec_result, written, blocked>>
    /\ UNCHANGED <<buildVars, optionVars, findVars>>

\* thread_start with a thread that is created and never run
thread_start_not_run(thread) == thread

\* Thread.start(): the thread runs _stream_output from its first statement
thread_start(thread) == [thread EXCEPT !.pc = "readline"]

\* lines 81-82
ThreadStart(s, next) ==
    /\ exec_pc = "start_" \o s
    /\ threads' = [threads EXCEPT ![s] = thread_start(@)]
    /\ ExecGoto(next)
    /\ UNCHANGED <<exec_args, process, pipes, outputString, destination, error_code,
                   exec_result, written, blocked>>
    /\ UNCHANGED <<buildVars, optionVars, findVars>>

\* the child writes its next line; the write goes through when the pipe has room
ChildWrite ==
    /\ process.state = "running"
    /\ process.todo # <<>>
    /\ LET s == Head(process.todo)
       IN  /\ Len(pipes[s]) < PipeCapacity
           /\ pipes' = [pipes EXCEPT ![s] = Append(@, process.n + 1)]
           /\ written' = [written EXCEPT ![s] = Append(@, process.n + 1)]
           /\ process' = [process EXCEPT !.todo = Tail(@), !.n = @ + 1]
    /\ UNCHANGED <<exec_pc, exec_args, threads, outputString, destination, error_code,
                   exec_result, blocked>>
    /\ UNCHANGED <<buildVars, optionVars, findVars>>

\* the pipe is full: the child's write has to wait for the reader
ChildWait ==
    /\ process.state = "running"
    /\ process.todo # <<>>
    /\ Len(pipes[Head(process.todo)]) >= PipeCapacity
    /\ ~blocked
    /\ blocked' = TRUE
    /\ UNCHANGED <<exec_pc, exec_args, process, pipes, threads, outputString, destination,
                   error_code, exec_result, written>>
    /\ UNCHANGED <<buildVars, optionVars, findVars>>

\* the child exits: the write ends of both pipes are closed
ChildExit ==
    /\ process.state = "running"
    /\ process.todo = <<>>
    /\ process' = [process EXCEPT !.state = "exited"]
    /\ UNCHANGED <<exec_pc, exec_args, pipes, threads, outputString, destination,
                   error_code, exec_result, written, blocked>>
    /\ UNCHANGED <<buildVars, optionVars, findVars>>

\* line 25: stream.readline() gives the next line once its newline or the end of
\* file was read, or "" at end of file (the pipe is empty and its write end
\* closed); it waits while neither is the case
ReadLine(s) ==
    /\ threads[s].pc = "readline"
    /\ \/ /\ pipes[s] # <<>>
          /\ Head(pipes[s]) # process.partial \/ process.state = "exited"
          /\ threads' = [threads EXCEPT ![s] = [pc |-> "print", line |-> Head(pipes[s])]]
          /\ pipes' = [pipes EXCEPT ![s] = Tail(@)]
       \/ /\ pipes[s] = <<>>
          /\ process.state = "exited"
          /\ threads' = [threads EXCEPT ![s] = [pc |-> "close", line |-> 0]]
          /\ UNCHANGED pipes
    /\ UNCHANGED <<exec_pc, exec_args, process, outputString, destination, error_code,
                   exec_result, written, blocked>>
    /\ UNCHANGED <<buildVars, optionVars, findVars>>

\* lines 26-27: if print_output: print(line, end="", file=destination)
Echo(s) ==
    /\ threads[s].pc = "print"
    /\ destination' = IF exec_args.print_output
                      THEN [destination EXCEPT ![s] =
                                print(@, threads[s].line, threads[s].line # process.partial)]
                      ELSE destination
    /\ threads' = [threads EXCEPT ![s].pc = "write"]
    /\ UNCHANGED <<exec_pc, exec_args, process, pipes, outputString, error_code,
                   exec_result, written, blocked>>
    /\ UNCHANGED <<buildVars, optionVars, findVars>>

\* line 28: outputString.write(line)
Accumulate(s) ==
    /\ threads[s].pc = "write"
    /\ outputString' = [outputString EXCEPT ![s] = Append(@, threads[s].line)]
    /\ threads' = [threads EXCEPT ![s] = [pc |-> "readline", line |-> 0]]
    /\ UNCHANGED <<exec_pc, exec_args, process, pipes, destination, error_code,
                   exec_result, written, blocked>>
    /\ UNCHANGED <<buildVars, optionVars, findVars>>

\* line 30: stream.close(); the thread's target returns
Close(s) ==
    /\ threads[s].pc = "close"
    /\ threads' = [threads EXCEPT ![s].pc = "finished"]
    /\ UNCHANGED <<exec_pc, exec_args, process, pipes, outputString, destination,
                   error_code, exec_result, written, blocked>>
    /\ UNCHANGED <<buildVars, optionVars, findVars>>

\* line 84: error_code = process.wait()
Wait ==
    /\ exec_pc = "wait"
    /\ process.state = "exited"
    /\ error_code' = process.exit_code
    /\ ExecGoto("flush_stdout")
    /\ UNCHANGED <<exec_args, process, pipes, threads, outputString, destination,
                   exec_result, written, blocked>>
    /\ UNCHANGED <<buildVars, optionVars, findVars>>

\* lines 86-87: sys.stdout.flush(), sys.stderr.flush()
Flush(s, next) ==
    /\ exec_pc = "flush_" \o s
    /\ destination' = [destination EXCEPT ![s] = flush(@)]
    /\ ExecGoto(next)
    /\ UNCHANGED <<exec_args, process, pipes, threads, outputString, error_code,
                   exec_result, written, blocked>>
    /\ UNCHANGED <<buildVars, optionVars, findVars>>

\* join_returns with a join that does not wait
join_returns_at_once(thread) == TRUE

\* Thread.join() returns once the thread's target has returned
join_returns(thread) == thread.pc = "finished"

\* lines 89-90
Join(s, next) ==
    /\ exec_pc = "join_" \o s
    /\ join_returns(threads[s])
    /\ ExecGoto(next)
    /\ UNCHANGED <<exec_args, process, pipes, threads, outputString, destination,
                   error_code, exec_result, written, blocked>>
    /\ UNCHANGED <<buildVars, optionVars, findVars>>

\* lines 92-98: logger.fatal(stderr) and raise, or return the ShellCommandResult
Return ==
    /\ exec_pc = "check"
    /\ IF ExecRaises(exec_args.throw_on_error, error_code)
       THEN /\ exec_result' = [kind |-> "raised", error_code |-> error_code,
                               logged |-> outputString["stderr"]]
            /\ ExecGoto("raised")
       ELSE /\ exec_result' = [kind |-> "returned", error_code |-> error_code,
                               stdout |-> outputString["stdout"],
                               stderr |-> outputString["stderr"]]
            /\ ExecGoto("returned")
    /\ UNCHANGED <<exec_args, process, pipes, threads, outputString, destination,
                   error_code, written, blocked>>
    /\ UNCHANGED <<buildVars, optionVars, findVars>>

\* the calling thread
Caller ==
    \/ Popen
    \/ ThreadStart("stdout", "start_stderr")
    \/ ThreadStart("stderr", "wait")
    \/ Wait
    \/ Flush("stdout", "flush_stderr")
    \/ Flush("stderr", "join_stdout")
    \/ Join("stdout", "join_stderr")
    \/ Join("stderr", "check")
    \/ Return

\* the child process
Child == ChildWrite \/ ChildWait \/ ChildExit

\* stdout_thread or stderr_thread
StreamOutput(s) == ReadLine(s) \/ Echo(s) \/ Accumulate(s) \/ Close(s)

(***************************************************************************)
(* Package._download_source_file                                           *)
(***************************************************************************)
\* the loop over config.repositories: the first repository that holds the source
RECURSIVE FirstRepository(_, _)
FirstRepository(inRepos, k) ==
    IF k > Len(repositories) THEN "none"
    ELSE IF repositories[k] \in inRepos THEN repositories[k]
    ELSE FirstRepository(inRepos, k + 1)

\* ResolveStrategy with the URL test after the file lookups
ResolveStrategy_url_last(source, given, inRecipe, inRepos) ==
    IF given THEN "given"
    ELSE IF inRecipe THEN "recipe"
    ELSE IF FirstRepository(inRepos, 1) # "none" THEN FirstRepository(inRepos, 1)
    ELSE IF is_url(source) THEN "url"
    ELSE "none"

\* the if/elif chain of lines 232-261
ResolveStrategy(source, given, inRecipe, inRepos) ==
    IF is_url(source) THEN "url"
    ELSE IF given THEN "given"
    ELSE IF inRecipe THEN "recipe"
    ELSE FirstRepository(inRepos, 1)

\* shutil.copy(path, source directory): raises when path is not an existing file
shutil_copy(pathIsFile, content, name, dir) ==
    IF pathIsFile
    THEN [raised |-> "", dir |-> WriteFile(dir, name, content)]
    ELSE [raised |-> "FileNotFoundError", dir |-> dir]

\* Materialize without the `if not found: raise` after the repository loop
Materialize_no_raise(strategy, source, given, dir) ==
    CASE strategy = "url" -> [raised |-> "", dir |-> WriteFile(dir, basename(source), "url")]
      [] strategy = "given" -> shutil_copy(given, "given", basename(source), dir)
      [] strategy = "recipe" -> shutil_copy(given, "given", basename(source), dir)
      [] strategy = "none" -> [raised |-> "", dir |-> dir]
      [] OTHER -> shutil_copy(TRUE, strategy, basename(source), dir)

\* the body of the branch taken: download_file or shutil.copy with the path the code passes
Materialize(strategy, source, given, dir) ==
    CASE strategy = "url" -> [raised |-> "", dir |-> WriteFile(dir, basename(source), "url")]
      [] strategy = "given" -> shutil_copy(given, "given", basename(source), dir)
      [] strategy = "recipe" -> shutil_copy(given, "given", basename(source), dir)
      [] strategy = "none" ->
            [raised |-> "ValueError: not a valid URL or file path", dir |-> dir]
      [] OTHER -> shutil_copy(TRUE, strategy, basename(source), dir)

\* download_source_file that does not compare the checksum
download_source_file_unchecked(source, sha256sum, given, inRecipe, inRepos, dir) ==
    LET strategy == ResolveStrategy(source, given, inRecipe, inRepos)
        m == Materialize(strategy, source, given, dir)
    IN  IF m.raised # ""
        THEN [strategy |-> strategy, raised |-> m.raised, checked |-> FALSE,
              content |-> "", dir |-> m.dir]
        ELSE [strategy |-> strategy, raised |-> "", checked |-> FALSE,
              content |-> m.dir.files[basename(source)], dir |-> m.dir]

\* `content` is what the branch put at file_path ("" when it raised), `checked`
\* whether check_file_hash_from_string was reached
download_source_file(source, sha256sum, given, inRecipe, inRepos, dir) ==
    LET strategy == ResolveStrategy(source, given, inRecipe, inRepos)
        m == Materialize(strategy, source, given, dir)
    IN  IF m.raised # ""
        THEN [strategy |-> strategy, raised |-> m.raised, checked |-> FALSE,
              content |-> "", dir |-> m.dir]
        ELSE IF ~check_file_hash_from_string(m.dir, basename(source), sha256sum)
        THEN [strategy |-> strategy, raised |-> "ValueError: hash mismatch",
              checked |-> TRUE, dir |-> m.dir,
              content |-> IF Exists(m.dir, basename(source))
                          THEN m.dir.files[basename(source)] ELSE ""]
        ELSE [strategy |-> strategy, raised |-> "", checked |-> TRUE,
              content |-> m.dir.files[basename(source)], dir |-> m.dir]

\* the members a source tarball unpacks to
Members(name, content) == (name \o ".d") :> content

(***************************************************************************)
(* Initial state: a package object just constructed (options = {}), its    *)
(* description loaded, no workspace on disk yet.                           *)
(***************************************************************************)
\* A declared source with its declared checksum: that of one of the copies of the
\* source, or of no copy at all.
Declarations ==
    {d \in Locators \X {Sha256(o) : o \in Origins \cup {"other"}} :
        d[2] \in {Sha256(o) : o \in WhereFound(d[1]) \cup {"other"}}}

UrlDeclarations == {d \in Declarations : is_url(d[1])}

\* no cache check made yet
NotAsked == [asked |-> FALSE, consulted |-> FALSE, found |-> FALSE, valid |-> FALSE]

\* no stored archive known to be untouched
NothingStored == [path |-> "", recipe |-> "", options |-> NoOptions, by |-> 0]

\* no invocation was stopped between its archive and its sidecar
NotInterrupted == [path |-> "", by |-> 0]

\* the state after Package.__init__, the description's sources drawn from `decls`
InitWith(decls) ==
    /\ recipeFile \in Recipes
    /\ options = NoOptions
    /\ \E ds \in SeqsUpTo(decls, MaxSources) :
          /\ sources = [i \in 1..Len(ds) |-> ds[i][1]]
          /\ sha256sums = [i \in 1..Len(ds) |-> ds[i][2]]
    /\ sourceDir = NoDir
    /\ buildDir = NoDir
    /\ packageDir = NoDir
    /\ artifactsDir = NoDir
    /\ pc = [b \in Builders |-> "idle"]
    /\ build_from_source = [b \in Builders |-> FALSE]
    /\ require_build = [b \in Builders |-> FALSE]
    /\ artifact_file_path = [b \in Builders |-> ""]
    /\ output_archive_file = [b \in Builders |-> ""]
    /\ idx = [b \in Builders |-> 0]
    /\ error = [b \in Builders |-> ""]
    /\ phases = [b \in Builders |-> <<>>]
    /\ acquired = [b \in Builders |-> <<>>]
    /\ restored = [b \in Builders |-> <<>>]
    /\ cache = [b \in Builders |-> NotAsked]
    /\ before = [b \in Builders |-> NoFiles]
    /\ stored = NothingStored
    /\ builds = 0
    /\ file_hash = [b \in Builders |-> <<>>]
    /\ clobbered = [b \in Builders |-> FALSE]
    /\ interrupted = NotInterrupted
    /\ hits = 0

\* the Package objects whose options are compared
PackageObjects == {1, 2}

\* _get_environment_variables not called yet
NotComputed == <<>>

\* nothing computed from any options
OptionsIdle ==
    /\ packages = [p \in PackageObjects |-> NoOptions]
    /\ digests = [p \in PackageObjects |-> <<>>]
    /\ environments = [p \in PackageObjects |-> NotComputed]

\* Atom(name, version, release): a value, equal to any Atom of the same three strings
Atom(name, version, release) == [name |-> name, version |-> version, release |-> release]

\* Package(atom, recipe_path): an object, `id` telling it from every other one
Package(id, atom, recipe_path) == [id |-> id, atom |-> atom, recipe_path |-> recipe_path]

\* None where a Package is expected
NoPackage == Package(0, Atom("", "", ""), "")

\* no find_package call made
NotCalled ==
    [package_atom |-> "", throw_on_failure |-> FALSE, kind |-> "not called",
     package |-> NoPackage]

\* PackageManager.__init__, over repositories that hold nothing
FindIdle ==
    /\ disk = {}
    /\ latest_files = <<>>
    /\ manager_packages = <<>>
    /\ objects = 0
    /\ find_result = NotCalled

\* a package whose sources are downloaded
Init == InitWith(UrlDeclarations) /\ ExecIdle /\ OptionsIdle /\ FindIdle

\* a package with sources of every kind
InitSources == InitWith(Declarations) /\ ExecIdle /\ OptionsIdle /\ FindIdle

(***************************************************************************)
(* Package.build, statement by statement.                                  *)
(***************************************************************************)
\* the exception `e` leaves build()
Raise(b, e) ==
    /\ pc' = [pc EXCEPT ![b] = "failed"]
    /\ error' = [error EXCEPT ![b] = e]

Goto(b, label) ==
    /\ pc' = [pc EXCEPT ![b] = label]
    /\ UNCHANGED error

\* package.build(build_from_source) is called (main._handle_install)
StartBuild(b, force) ==
    /\ pc[b] = "idle"
    /\ builds < MaxBuilds
    /\ builds' = builds + 1
    /\ build_from_source' = [build_from_source EXCEPT ![b] = force]
    /\ before' = [before EXCEPT ![b] = artifactsDir.files]
    /\ Goto(b, "prepare")
    /\ UNCHANGED <<fsVars, descVars, confVars, require_build, artifact_file_path, idx,
                   output_archive_file, phases, acquired, restored, cache, stored>>
    /\ UNCHANGED <<execVars, optionVars, findVars>>
    /\ UNCHANGED <<file_hash, clobbered, interrupted, hits>>

\* build() returns, or its exception reaches main(): the invocation is over
Finish(b) ==
    /\ pc[b] \in {"done", "failed"}
    /\ pc' = [pc EXCEPT ![b] = "idle"]
    /\ build_from_source' = [build_from_source EXCEPT ![b] = FALSE]
    /\ require_build' = [require_build EXCEPT ![b] = FALSE]
    /\ artifact_file_path' = [artifact_file_path EXCEPT ![b] = ""]
    /\ output_archive_file' = [output_archive_file EXCEPT ![b] = ""]
    /\ idx' = [idx EXCEPT ![b] = 0]
    /\ error' = [error EXCEPT ![b] = ""]
    /\ phases' = [phases EXCEPT ![b] = <<>>]
    /\ acquired' = [acquired EXCEPT ![b] = <<>>]
    /\ restored' = [restored EXCEPT ![b] = <<>>]
    /\ cache' = [cache EXCEPT ![b] = NotAsked]
    /\ before' = [before EXCEPT ![b] = NoFiles]
    /\ UNCHANGED <<fsVars, descVars, confVars, stored, builds>>
    /\ UNCHANGED <<execVars, optionVars, findVars>>
    /\ file_hash' = [file_hash EXCEPT ![b] = <<>>]
    /\ clobbered' = [clobbered EXCEPT ![b] = FALSE]
    /\ UNCHANGED <<interrupted, hits>>

\* acquire_workspace with a lock on the workspace: a build waits while another one
\* is under way
acquire_workspace_exclusive(b) ==
    \A c \in Builders \ {b} : pc[c] \in {"idle", "done", "failed"}

\* lines 65-67: build() takes no lock before it touches the workspace; every
\* invocation goes ahead
acquire_workspace(b) == TRUE

\* the invocations in their fetch or phase steps
Working == {"sources", "handle_build", "handle_check", "handle_package"}

\* the other invocations that lose fetched sources when b empties the source directory
LosingSources(b) ==
    {c \in Builders \ {b} :
        pc[c] \in Working /\ sourceDir.exists /\ DOMAIN sourceDir.files # {}}

\* line 67: self._create_working_directories()
Prepare(b) ==
    /\ pc[b] = "prepare"
    /\ acquire_workspace(b)
    /\ create_working_directories
    /\ clobbered' = [c \in Builders |-> clobbered[c] \/ c \in LosingSources(b)]
    /\ Goto(b, "cache_check")
    /\ UNCHANGED <<descVars, confVars, localVars, logVars, stored, builds, file_hash>>
    /\ UNCHANGED <<execVars, optionVars, findVars>>
    /\ UNCHANGED <<interrupted, hits>>

\* cache_check with the hash test inverted: a matching archive forces the rebuild
cache_check_inverted(force, dir, path) ==
    IF force
    THEN [require_build |-> TRUE, consulted |-> FALSE]
    ELSE IF Exists(dir, path)
         THEN [require_build |-> check_file_hash_from_file(dir, path), consulted |-> TRUE]
         ELSE [require_build |-> FALSE, consulted |-> FALSE]

\* cache_check that looks at the cache whatever build_from_source says
cache_check_unforced(force, dir, path) ==
    IF Exists(dir, path)
    THEN [require_build |-> ~check_file_hash_from_file(dir, path), consulted |-> TRUE]
    ELSE [require_build |-> force, consulted |-> FALSE]

\* cache_check that rebuilds whatever the artifacts directory holds
cache_check_always_rebuild(force, dir, path) ==
    [require_build |-> TRUE, consulted |-> ~force /\ Exists(dir, path)]

\* cache_check that takes an archive for verified when it has a sidecar
cache_check_sidecar_exists(force, dir, path) ==
    IF force
    THEN [require_build |-> TRUE, consulted |-> FALSE]
    ELSE IF Exists(dir, path)
         THEN [require_build |-> ~Exists(dir, SidecarPath(path)), consulted |-> TRUE]
         ELSE [require_build |-> FALSE, consulted |-> FALSE]

\* cache_check that takes an archive that exists without verifying it
cache_check_unverified(force, dir, path) ==
    IF force
    THEN [require_build |-> TRUE, consulted |-> FALSE]
    ELSE [require_build |-> FALSE, consulted |-> FALSE]

\* lines 72-83: the value of require_build after the cache check, and whether
\* check_file_hash_from_file was called
cache_check(force, dir, path) ==
    IF force
    THEN [require_build |-> TRUE, consulted |-> FALSE]
    ELSE IF Exists(dir, path)
         THEN [require_build |-> ~check_file_hash_from_file(dir, path), consulted |-> TRUE]
         ELSE [require_build |-> FALSE, consulted |-> FALSE]

\* lines 69-85
CacheCheck(b) ==
    /\ pc[b] = "cache_check"
    /\ LET path == get_binary_archive_path(recipeFile, options)
           c == cache_check(build_from_source[b], artifactsDir, path)
       IN  /\ artifact_file_path' = [artifact_file_path EXCEPT ![b] = path]
           /\ require_build' = [require_build EXCEPT ![b] = c.require_build]
           /\ cache' = [cache EXCEPT ![b] =
                    [asked |-> TRUE, consulted |-> c.consulted,
                     found |-> Exists(artifactsDir, path),
                     valid |-> check_file_hash_from_file(artifactsDir, path)]]
           /\ Goto(b, IF c.require_build THEN "prepare_rebuild" ELSE "extract")
    /\ UNCHANGED <<fsVars, descVars, confVars, build_from_source, idx, output_archive_file,
                   phases, acquired, restored, before, stored, builds>>
    /\ UNCHANGED <<execVars, optionVars, findVars>>
    /\ UNCHANGED <<file_hash, clobbered, interrupted, hits>>

\* archive_after_extract with an extraction that removes the archive it unpacked
archive_after_extract_removed(dir, path) == RemoveFile(dir, path)

\* line 86: the artifacts directory after extract_tar read the archive at `path`:
\* the archive is opened for reading and stays in place
archive_after_extract(dir, path) == dir

\* line 86: extract_tar(artifact_file_path, package directory)
ExtractCached(b) ==
    /\ pc[b] = "extract"
    /\ LET path == artifact_file_path[b]
           found == Exists(artifactsDir, path)
       IN  /\ restored' = [restored EXCEPT ![b] =
                    <<[path |-> path, found |-> found,
                       members |-> IF found THEN artifactsDir.files[path] ELSE NoFiles]>>]
           /\ IF found
              THEN /\ packageDir' = extract_tar(artifactsDir.files[path], packageDir)
                   /\ artifactsDir' = archive_after_extract(artifactsDir, path)
                   /\ Goto(b, "done")
              ELSE /\ UNCHANGED <<packageDir, artifactsDir>>
                   /\ Raise(b, "FileNotFoundError: archive")
    /\ UNCHANGED <<sourceDir, buildDir, descVars, confVars, localVars,
                   phases, acquired, cache, before, stored, builds>>
    /\ UNCHANGED <<execVars, optionVars, findVars>>
    /\ hits' = IF Exists(artifactsDir, artifact_file_path[b]) THEN hits + 1 ELSE 0
    /\ UNCHANGED <<file_hash, clobbered, interrupted>>

\* line 88: self._create_working_directories()
PrepareRebuild(b) ==
    /\ pc[b] = "prepare_rebuild"
    /\ create_working_directories
    /\ clobbered' = [c \in Builders |-> clobbered[c] \/ c \in LosingSources(b)]
    /\ Goto(b, "sources")
    /\ UNCHANGED <<descVars, confVars, localVars, logVars, stored, builds, file_hash>>
    /\ UNCHANGED <<execVars, optionVars, findVars>>
    /\ UNCHANGED <<interrupted, hits>>

(***************************************************************************)
(* Package._handle_sources                                                 *)
(***************************************************************************)
\* loop_ended for a loop that runs no iteration
loop_ended_at_once(i, n) == TRUE

\* line 147: for i in range(len(self.description.sources)) has run all its iterations
loop_ended(i, n) == i >= n

\* lines 147-154: one iteration of the loop over description.sources
AcquireSource(b) ==
    /\ pc[b] = "sources"
    /\ ~loop_ended(idx[b], Len(sources))
    /\ LET source == sources[idx[b] + 1]
           out == Outside(source)
           r == download_source_file(source, sha256sums[idx[b] + 1],
                                     out.given, out.inRecipe, out.inRepos, sourceDir)
           name == basename(source)
           untar == r.raised = "" /\ is_tarfile(name)
       IN  /\ acquired' = [acquired EXCEPT ![b] = Append(@,
                    [index |-> idx[b], source |-> source, strategy |-> r.strategy,
                     content |-> r.content, raised |-> r.raised, checked |-> r.checked,
                     extracted |-> untar])]
           /\ sourceDir' = IF untar
                           THEN extract_tar(Members(name, r.dir.files[name]), r.dir)
                           ELSE r.dir
           /\ IF r.raised = ""
              THEN /\ idx' = [idx EXCEPT ![b] = @ + 1]
                   /\ Goto(b, "sources")
              ELSE /\ UNCHANGED idx
                   /\ Raise(b, r.raised)
    /\ UNCHANGED <<buildDir, packageDir, artifactsDir, descVars, confVars, build_from_source,
                   require_build, artifact_file_path, output_archive_file, phases,
                   restored, cache, before, stored, builds>>
    /\ UNCHANGED <<execVars, optionVars, findVars>>
    /\ UNCHANGED <<file_hash, clobbered, interrupted, hits>>

\* Package._call_script_function(function_name): the call is logged with what the
\* shell did, and a non-zero exit code raises
call_script_function(b, function_name, outcome, next) ==
    /\ phases' = [phases EXCEPT ![b] = Append(@, [name |-> function_name, outcome |-> outcome])]
    /\ IF call_script_function_raises(outcome)
       THEN Raise(b, "Exception: Command failed")
       ELSE Goto(b, next)

\* lines 156-158: the handle_sources phase, after the loop
HandleSources(b) ==
    /\ pc[b] = "sources"
    /\ loop_ended(idx[b], Len(sources))
    /\ \E outcome \in Outcomes(recipeFile, "handle_sources") :
          call_script_function(b, "handle_sources", outcome, "handle_build")
    /\ UNCHANGED <<fsVars, descVars, confVars, localVars, acquired, restored, cache,
                   before, stored, builds>>
    /\ UNCHANGED <<execVars, optionVars, findVars>>
    /\ UNCHANGED <<file_hash, clobbered, interrupted, hits>>

\* Package._handle_build
HandleBuild(b) ==
    /\ pc[b] = "handle_build"
    /\ \E outcome \in Outcomes(recipeFile, "handle_build") :
          call_script_function(b, "handle_build", outcome, "handle_check")
    /\ UNCHANGED <<fsVars, descVars, confVars, localVars, acquired, restored, cache,
                   before, stored, builds>>
    /\ UNCHANGED <<execVars, optionVars, findVars>>
    /\ UNCHANGED <<file_hash, clobbered, interrupted, hits>>

\* Package._handle_check
HandleCheck(b) ==
    /\ pc[b] = "handle_check"
    /\ \E outcome \in Outcomes(recipeFile, "handle_check") :
          call_script_function(b, "handle_check", outcome, "handle_package")
    /\ UNCHANGED <<fsVars, descVars, confVars, localVars, acquired, restored, cache,
                   before, stored, builds>>
    /\ UNCHANGED <<execVars, optionVars, findVars>>
    /\ UNCHANGED <<file_hash, clobbered, interrupted, hits>>

(***************************************************************************)
(* Package._handle_package                                                 *)
(***************************************************************************)
\* output_archive_path with another extension than the one build() looks up
output_archive_path_gz(recipe, opts) == compute_binary_hash(recipe, opts) \o ".tar.gz"

\* lines 203-206: output_archive_file
output_archive_path(recipe, opts) == compute_binary_hash(recipe, opts) \o ".tar.xz"

\* StoreSteps with the sidecar written before the archive
StoreSteps_hash_first == <<"write_hash", "compress">>

\* lines 208-210: compress_tar, then write_file_hash
StoreSteps == <<"compress", "write_hash">>

\* the statement that follows a step of the store
AfterStoreStep(step) == IF step = StoreSteps[1] THEN StoreSteps[2] ELSE "done"

\* lines 197-206: the recipe's handle_package installs into the package directory;
\* then the archive path is computed
HandlePackage(b) ==
    /\ pc[b] = "handle_package"
    /\ \E outcome \in Outcomes(recipeFile, "handle_package") :
          /\ call_script_function(b, "handle_package", outcome, StoreSteps[1])
          /\ IF outcome = "ok"
             THEN \E out \in BuildOutputs : packageDir' = WriteFile(packageDir, "bin", out)
             ELSE UNCHANGED packageDir
          /\ output_archive_file' = [output_archive_file EXCEPT ![b] =
                  IF call_script_function_raises(outcome) THEN @
                  ELSE output_archive_path(recipeFile, options)]
    /\ UNCHANGED <<sourceDir, buildDir, artifactsDir, descVars, confVars, build_from_source,
                   require_build, artifact_file_path, idx, acquired, restored, cache,
                   before, stored, builds>>
    /\ UNCHANGED <<execVars, optionVars, findVars>>
    /\ UNCHANGED <<file_hash, clobbered, interrupted, hits>>

\* line 208: compress_tar(package directory, output_archive_file)
CompressTar(b) ==
    /\ pc[b] = "compress"
    /\ artifactsDir' = WriteFile(artifactsDir, output_archive_file[b], compress_tar(packageDir))
    /\ stored' = IF stored.path = output_archive_file[b] THEN NothingStored ELSE stored
    /\ Goto(b, AfterStoreStep("compress"))
    /\ UNCHANGED <<sourceDir, buildDir, packageDir, descVars, confVars, localVars, logVars,
                   builds>>
    /\ UNCHANGED <<execVars, optionVars, findVars>>
    /\ hits' = 0
    /\ UNCHANGED <<file_hash, clobbered, interrupted>>

\* line 210: write_file_hash(output_archive_file), its first half: the archive is
\* read and its checksum computed
WriteFileHash(b) ==
    /\ pc[b] = "write_hash"
    /\ IF Exists(artifactsDir, output_archive_file[b])
       THEN /\ file_hash' = [file_hash EXCEPT ![b] =
                                Sha256(artifactsDir.files[output_archive_file[b]])]
            /\ Goto(b, "write_sidecar")
       ELSE /\ UNCHANGED file_hash
            /\ Raise(b, "FileNotFoundError: archive")
    /\ UNCHANGED <<fsVars, descVars, confVars, localVars, logVars, stored, builds, clobbered>>
    /\ UNCHANGED <<execVars, optionVars, findVars>>
    /\ UNCHANGED <<interrupted, hits>>

\* line 210: write_file_hash(output_archive_file), its second half: the checksum is
\* written to the sidecar file
WriteSidecar(b) ==
    /\ pc[b] = "write_sidecar"
    /\ artifactsDir' = WriteFile(artifactsDir, SidecarPath(output_archive_file[b]),
                                 file_hash[b])
    /\ stored' = [path |-> output_archive_file[b], recipe |-> recipeFile,
                  options |-> options, by |-> builds]
    /\ Goto(b, AfterStoreStep("write_hash"))
    /\ UNCHANGED <<sourceDir, buildDir, packageDir, descVars, confVars, localVars, logVars,
                   builds, file_hash, clobbered>>
    /\ UNCHANGED <<execVars, optionVars, findVars>>
    /\ hits' = 0
    /\ UNCHANGED interrupted

(***************************************************************************)
(* The environment between builds: the recipe is edited, a stored archive  *)
(* is damaged or loses its sidecar.                                        *)
(***************************************************************************)
AllIdle == \A b \in Builders : pc[b] = "idle"

EditRecipe(text) ==
    /\ AllIdle
    /\ text # recipeFile
    /\ recipeFile' = text
    /\ UNCHANGED <<options, fsVars, descVars, pc, error, localVars, logVars, stored, builds>>
    /\ UNCHANGED <<execVars, optionVars, findVars>>
    /\ interrupted' = NotInterrupted
    /\ hits' = 0
    /\ UNCHANGED <<file_hash, clobbered>>

ArchivePaths == {get_binary_archive_path(r, o) : r \in Recipes, o \in OptionDicts}

\* a damaged archive: its bytes differ from those of any archive compress_tar wrote
Damaged(members) ==
    [n \in DOMAIN members \cup {"~damaged"} |->
        IF n = "~damaged" THEN "garbage" ELSE members[n]]

DamageArchive(path) ==
    /\ AllIdle
    /\ Exists(artifactsDir, path)
    /\ artifactsDir.files[path] # Damaged(artifactsDir.files[path])
    /\ artifactsDir' = WriteFile(artifactsDir, path, Damaged(artifactsDir.files[path]))
    /\ stored' = IF stored.path = path THEN NothingStored ELSE stored
    /\ UNCHANGED <<sourceDir, buildDir, packageDir, descVars, confVars, pc, error, localVars,
                   logVars, builds>>
    /\ UNCHANGED <<execVars, optionVars, findVars>>
    /\ interrupted' = NotInterrupted
    /\ hits' = 0
    /\ UNCHANGED <<file_hash, clobbered>>

RemoveSidecar(path) ==
    /\ AllIdle
    /\ Exists(artifactsDir, SidecarPath(path))
    /\ artifactsDir' = RemoveFile(artifactsDir, SidecarPath(path))
    /\ stored' = IF stored.path = path THEN NothingStored ELSE stored
    /\ UNCHANGED <<sourceDir, buildDir, packageDir, descVars, confVars, pc, error, localVars,
                   logVars, builds>>
    /\ UNCHANGED <<execVars, optionVars, findVars>>
    /\ interrupted' = NotInterrupted
    /\ hits' = 0
    /\ UNCHANGED <<file_hash, clobbered>>

(***************************************************************************)
(* Builds of one package, one after another.                               *)
(***************************************************************************)
Build(b) ==
    \/ \E force \in BOOLEAN : StartBuild(b, force)
    \/ Prepare(b)
    \/ CacheCheck(b)
    \/ ExtractCached(b)
    \/ PrepareRebuild(b)
    \/ AcquireSource(b)
    \/ HandleSources(b)
    \/ HandleBuild(b)
    \/ HandleCheck(b)
    \/ HandlePackage(b)
    \/ CompressTar(b)
    \/ WriteFileHash(b)
    \/ WriteSidecar(b)
    \/ Finish(b)

Environment ==
    \/ \E text \in Recipes : EditRecipe(text)
    \/ \E path \in ArchivePaths : DamageArchive(path)
    \/ \E path \in ArchivePaths : RemoveSidecar(path)

Next == Build(1) \/ Environment

Spec == Init /\ [][Next]_vars

(***************************************************************************)
(* Builds of a package with sources of every kind, nothing else going on.  *)
(***************************************************************************)
NextSources == Build(1)

SpecSources == InitSources /\ [][NextSources]_vars

(***************************************************************************)
(* PackageManager.find_package over the configured repositories.           *)
(***************************************************************************)
\* configuration.py: config.package_streams, the configured streams in order
package_streams == <<"core", "extra">>

LATEST_VERSION_IDENTIFIER == "latest"

\* The package atoms find_package is asked for.
AtomStrings ==
    {"zlib", "zlib/latest", "zlib/1.3", "zlib/1.3-0", "zlib/1.3-2", "zlib/1.3-2-1",
     "zlib/", "zlib/1.3/x"}

\* atom_string.split("/")
split_slash(s) ==
    CASE s = "zlib/latest" -> <<"zlib", "latest">>
      [] s = "zlib/1.3" -> <<"zlib", "1.3">>
      [] s = "zlib/1.3-0" -> <<"zlib", "1.3-0">>
      [] s = "zlib/1.3-2" -> <<"zlib", "1.3-2">>
      [] s = "zlib/1.3-2-1" -> <<"zlib", "1.3-2-1">>
      [] s = "zlib/" -> <<"zlib", "">>
      [] s = "zlib/1.3/x" -> <<"zlib", "1.3", "x">>
      [] OTHER -> <<s>>

\* version.split("-")
split_dash(s) ==
    CASE s = "1.3-0" -> <<"1.3", "0">>
      [] s = "1.3-2" -> <<"1.3", "2">>
      [] s = "1.3-2-1" -> <<"1.3", "2", "1">>
      [] OTHER -> <<s>>

\* What a `latest` file may hold.
LatestTexts == {"1.3\n", "1.3-2\n"}

\* f.read().strip()
strip(text) ==
    CASE text = "1.3\n" -> "1.3"
      [] text = "1.3-2\n" -> "1.3-2"
      [] OTHER -> text

\* a value returned, or a ValueError raised
Returned(value) == [raised |-> FALSE, value |-> value]

ValueError == [raised |-> TRUE, value |-> ""]

\* lines 28-29
recipe_path(repo, stream, atom) ==
    repo \o "/" \o stream \o "/recipes/" \o atom.name \o "/" \o atom.name \o "-"
        \o atom.version \o ".sh"

recipe_path2(repo, stream, atom) ==
    repo \o "/" \o stream \o "/recipes/" \o atom.name \o "/" \o atom.name \o "-"
        \o atom.version \o "-" \o atom.release \o ".sh"

\* line 91
latest_info_path(repo, stream, package_name) ==
    repo \o "/" \o stream \o "/recipes/" \o package_name \o "/" \o LATEST_VERSION_IDENTIFIER

\* lines 24 and 27, 89-90: `for repo in config.repositories: for stream in
\* config.package_streams`, the k-th pass through the inner loop's body
Passes == Len(repositories) * Len(package_streams)

repo_of(k) == repositories[((k - 1) \div Len(package_streams)) + 1]

stream_of(k) == package_streams[((k - 1) % Len(package_streams)) + 1]

\* lines 86-99, from the k-th pass on
RECURSIVE latest_from(_, _, _)
latest_from(k, package_name, files) ==
    IF k > Passes
    THEN ValueError
    ELSE LET latest_path == latest_info_path(repo_of(k), stream_of(k), package_name)
         IN  IF latest_path \in DOMAIN files
             THEN Returned(strip(files[latest_path]))
             ELSE latest_from(k + 1, package_name, files)

find_latest_package_version(package_name, files) == latest_from(1, package_name, files)

\* lines 71-80
parse_version_release_number(version) ==
    LET version_split == split_dash(version)
    IN  IF Len(version_split) > 2
        THEN ValueError
        ELSE IF Len(version_split) = 1
             THEN Returned(<<version, "0">>)
             ELSE Returned(<<version_split[1], version_split[2]>>)

\* lines 49-69
resolve_package_atom_info(atom_string, files) ==
    LET split_result == split_slash(atom_string)
        slash == Len(split_result) > 1
    IN  IF slash /\ Len(split_result) # 2
        THEN ValueError
        ELSE IF slash /\ (split_result[1] = "" \/ split_result[2] = "")
        THEN ValueError
        ELSE LET name == split_result[1]
                 version == IF slash THEN split_result[2] ELSE LATEST_VERSION_IDENTIFIER
                 resolved == IF version = LATEST_VERSION_IDENTIFIER
                             THEN find_latest_package_version(name, files)
                             ELSE Returned(version)
             IN  IF resolved.raised
                 THEN ValueError
                 ELSE LET parsed == parse_version_release_number(resolved.value)
                      IN  IF parsed.raised
                          THEN ValueError
                          ELSE Returned(Atom(name, parsed.value[1], parsed.value[2]))

\* lines 24-42, from the k-th pass on: the recipe found, "" when the loops end
RECURSIVE search_from(_, _, _)
search_from(k, atom, recipes) ==
    IF k > Passes
    THEN ""
    ELSE IF recipe_path(repo_of(k), stream_of(k), atom) \in recipes
    THEN recipe_path(repo_of(k), stream_of(k), atom)
    ELSE IF recipe_path2(repo_of(k), stream_of(k), atom) \in recipes
    THEN recipe_path2(repo_of(k), stream_of(k), atom)
    ELSE search_from(k + 1, atom, recipes)

\* lines 82-84: self.packages[version] = package
add_package_to_cache(cached, atom, package) ==
    [a \in DOMAIN cached \cup {atom} |-> IF a = atom THEN package ELSE cached[a]]

\* lines 15-47: how the call ends, the Package it returns, and the PackageManager
\* after it
find_package(package_atom, throw_on_failure) ==
    LET atom == resolve_package_atom_info(package_atom, latest_files)
        left == [packages |-> manager_packages, objects |-> objects]
    IN  IF atom.raised
        THEN [kind |-> "raised", package |-> NoPackage] @@ left
        ELSE IF atom.value \in DOMAIN manager_packages
        THEN [kind |-> "returned", package |-> manager_packages[atom.value]] @@ left
        ELSE LET path == search_from(1, atom.value, disk)
                 package == Package(objects + 1, atom.value, path)
             IN  IF path # ""
                 THEN [kind |-> "returned", package |-> package,
                       packages |-> add_package_to_cache(manager_packages, atom.value, package),
                       objects |-> objects + 1]
                 ELSE IF throw_on_failure
                 THEN [kind |-> "raised", package |-> NoPackage] @@ left
                 ELSE [kind |-> "none", package |-> NoPackage] @@ left

\* package_manager.find_package(package_atom, throw_on_failure)
FindPackage(package_atom, throw_on_failure) ==
    LET call == find_package(package_atom, throw_on_failure)
    IN  /\ find_result' = [package_atom |-> package_atom,
                           throw_on_failure |-> throw_on_failure,
                           kind |-> call.kind, package |-> call.package]
        /\ manager_packages' = call.packages
        /\ objects' = call.objects
        /\ UNCHANGED <<disk, latest_files>>
        /\ UNCHANGED <<buildVars, execVars, optionVars>>

\* The packages the repositories may hold recipes of.
Atoms == {Atom("zlib", "1.3", "0"), Atom("zlib", "1.3", "2")}

RecipeFiles ==
    {recipe_path(repositories[i], package_streams[j], a) :
        i \in 1..Len(repositories), j \in 1..Len(package_streams), a \in Atoms}
    \cup {recipe_path2(repositories[i], package_streams[j], a) :
        i \in 1..Len(repositories), j \in 1..Len(package_streams), a \in Atoms}

LatestFiles ==
    {latest_info_path(repositories[i], package_streams[j], "zlib") :
        i \in 1..Len(repositories), j \in 1..Len(package_streams)}

\* a PackageManager over repositories that hold up to MaxFiles files
InitFind ==
    /\ InitWith({})
    /\ recipeFile = "full-recipe"
    /\ ExecIdle
    /\ OptionsIdle
    /\ disk \in SUBSET RecipeFiles
    /\ \E there \in SUBSET LatestFiles : latest_files \in [there -> LatestTexts]
    /\ Cardinality(disk) + Cardinality(DOMAIN latest_files) <= MaxFiles
    /\ manager_packages = <<>>
    /\ objects = 0
    /\ find_result = NotCalled

NextFind ==
    \E package_atom \in AtomStrings, throw_on_failure \in BOOLEAN :
        FindPackage(package_atom, throw_on_failure)

SpecFind == InitFind /\ [][NextFind]_vars

(***************************************************************************)
(* Builds one at a time, any of which may be stopped before it returns.    *)
(***************************************************************************)
\* the archive at `path` is not the one the invocation found when it started
NewContent(b, path) ==
    /\ Exists(artifactsDir, path)
    /\ path \in DOMAIN before[b] => before[b][path] # artifactsDir.files[path]

\* the process running build() is stopped before its next statement; lines 208-210:
\* between compress_tar and the end of write_file_hash the archive is written and
\* its sidecar is not
Crash(b) ==
    /\ pc[b] \notin {"idle", "done", "failed"}
    /\ Raise(b, "killed")
    /\ interrupted' =
          IF pc[b] \in {"write_hash", "write_sidecar"} /\ NewContent(b, output_archive_file[b])
          THEN [path |-> output_archive_file[b], by |-> builds]
          ELSE interrupted
    /\ hits' = 0
    /\ UNCHANGED <<fsVars, descVars, confVars, localVars, logVars, stored, builds,
                   file_hash, clobbered>>
    /\ UNCHANGED <<execVars, optionVars, findVars>>

NextCrash == Build(1) \/ Crash(1) \/ Environment

SpecCrash == Init /\ [][NextCrash]_vars

(***************************************************************************)
(* Two build() invocations of one package at the same time: the same       *)
(* identity, recipe and options, hence the same workspace and archive path.*)
(***************************************************************************)
\* a package whose one source is downloaded and has the declared checksum
InitConcurrent ==
    /\ InitWith({d \in UrlDeclarations : d[2] = Sha256("url")})
    /\ recipeFile = "full-recipe"
    /\ Len(sources) = 1
    /\ ExecIdle
    /\ OptionsIdle
    /\ FindIdle

NextConcurrent == Build(1) \/ Build(2)

SpecConcurrent == InitConcurrent /\ [][NextConcurrent]_vars

(***************************************************************************)
(* One ShellCommand.exec call: the calling thread, the child and the two   *)
(* reader threads run concurrently.                                        *)
(***************************************************************************)
InitExec ==
    /\ InitWith({})
    /\ recipeFile = "full-recipe"
    /\ OptionsIdle
    /\ FindIdle
    /\ ExecCalled

NextExec == Caller \/ Child \/ \E s \in Streams : StreamOutput(s)

SpecExec == InitExec /\ [][NextExec]_vars

\* The operating system schedules every thread and the child process: a step that
\* stays possible is eventually taken.
FairExec ==
    /\ WF_vars(Caller)
    /\ WF_vars(ChildWrite \/ ChildExit)
    /\ \A s \in Streams : WF_vars(StreamOutput(s))

SpecExecFair == SpecExec /\ FairExec

(***************************************************************************)
(* Package objects of one recipe with their options: the fingerprint and   *)
(* the environment computed from them.                                     *)
(***************************************************************************)
InitOptions ==
    /\ InitWith({})
    /\ ExecIdle
    /\ FindIdle
    /\ packages \in [PackageObjects -> OptionDicts]
    /\ digests = [p \in PackageObjects |-> <<>>]
    /\ environments = [p \in PackageObjects |-> NotComputed]

\* self._compute_binary_hash() on Package object p
ComputeBinaryHash(p) ==
    /\ Len(digests[p]) < MaxCalls
    /\ digests' = [digests EXCEPT ![p] = Append(@, compute_binary_hash(recipeFile, packages[p]))]
    /\ UNCHANGED <<packages, environments, buildVars, execVars, findVars>>

\* self._get_environment_variables() on Package object p
GetEnvironmentVariables(p) ==
    /\ environments[p] = NotComputed
    /\ environments' = [environments EXCEPT ![p] = get_environment_variables(packages[p])]
    /\ UNCHANGED <<packages, digests, buildVars, execVars, findVars>>

NextOptions == \E p \in PackageObjects : ComputeBinaryHash(p) \/ GetEnvironmentVariables(p)

SpecOptions == InitOptions /\ [][NextOptions]_vars

(***************************************************************************)
(* Properties of the build lifecycle (Spec).                               *)
(***************************************************************************)
\* the names of the phases invoked so far, in order
PhaseCalls(b) == [k \in 1..Len(phases[b]) |-> phases[b][k].name]

\* the directory holds every member of the archive, as the archive has it
PopulatedFrom(dir, members) ==
    \A n \in DOMAIN members : Exists(dir, n) /\ dir.files[n] = members[n]

\* the invocation failed in source acquisition or in a recipe phase
FailedInRebuild(b) ==
    \/ acquired[b] # <<>> /\ acquired[b][Len(acquired[b])].raised = error[b]
    \/ phases[b] # <<>> /\ phases[b][Len(phases[b])].outcome = "fail"

CacheMiss(b) == cache[b].asked /\ ~build_from_source[b] /\ ~cache[b].found

CacheHit(b) ==
    cache[b].asked /\ ~build_from_source[b] /\ cache[b].found /\ cache[b].valid

CacheMismatch(b) ==
    cache[b].asked /\ ~build_from_source[b] /\ cache[b].found /\ ~cache[b].valid

Forced(b) == cache[b].asked /\ build_from_source[b]

\* C1: a build that is not forced and finds no archive at the fingerprint path takes
\* the rebuild path: it never tries to extract the missing archive, does not fail on
\* it, and when it is done all four phases were invoked and the archive and its
\* sidecar exist.
C1_CacheMissRebuilds ==
    \A b \in Builders :
        CacheMiss(b) =>
            /\ require_build[b]
            /\ restored[b] = <<>>
            /\ pc[b] # "extract"
            /\ error[b] # "FileNotFoundError: archive"
            /\ pc[b] = "done" =>
                   /\ PhaseCalls(b) = PhaseNames
                   /\ Exists(artifactsDir, artifact_file_path[b])
                   /\ Exists(artifactsDir, SidecarPath(artifact_file_path[b]))

\* C2: a build that is not forced and finds an archive whose sidecar matches invokes
\* no recipe phase and acquires no source, and when it is done it has extracted that
\* archive and the package directory holds the archive's members.
C2_CacheHitSkipsBuild ==
    \A b \in Builders :
        CacheHit(b) =>
            /\ phases[b] = <<>>
            /\ acquired[b] = <<>>
            /\ pc[b] \in {"extract", "done"}
            /\ pc[b] = "done" =>
                   /\ restored[b] = <<[path |-> artifact_file_path[b], found |-> TRUE,
                                       members |-> artifactsDir.files[artifact_file_path[b]]]>>
                   /\ PopulatedFrom(packageDir, artifactsDir.files[artifact_file_path[b]])

C2_Witness ==
    \E b \in Builders :
        /\ CacheHit(b)
        /\ pc[b] = "done"
        /\ "bin" \in DOMAIN artifactsDir.files[artifact_file_path[b]]

\* C3: a forced build never consults nor extracts the cached archive, and when it is
\* done all four phases were invoked, in order, and the archive at the fingerprint
\* path holds the package directory this build produced, with a matching sidecar.
C3_ForcedRebuild ==
    \A b \in Builders :
        Forced(b) =>
            /\ require_build[b]
            /\ ~cache[b].consulted
            /\ restored[b] = <<>>
            /\ pc[b] # "extract"
            /\ pc[b] = "done" =>
                   /\ PhaseCalls(b) = PhaseNames
                   /\ Exists(artifactsDir, artifact_file_path[b])
                   /\ artifactsDir.files[artifact_file_path[b]] = compress_tar(packageDir)
                   /\ check_file_hash_from_file(artifactsDir, artifact_file_path[b])

\* a forced build is done that found a valid archive and replaced it by another
C3_Witness ==
    \E b \in Builders :
        /\ Forced(b)
        /\ cache[b].found /\ cache[b].valid
        /\ pc[b] = "done"
        /\ artifactsDir.files[artifact_file_path[b]] # before[b][artifact_file_path[b]]

\* C4: a build that is not forced and finds an archive whose sidecar is missing or
\* does not match never extracts the archive and does not fail on it: it rebuilds,
\* and when it is done all four phases were invoked.
C4_CorruptCacheRebuilds ==
    \A b \in Builders :
        CacheMismatch(b) =>
            /\ require_build[b]
            /\ restored[b] = <<>>
            /\ pc[b] # "extract"
            /\ pc[b] = "failed" => FailedInRebuild(b)
            /\ pc[b] = "done" => PhaseCalls(b) = PhaseNames

\* a rebuild is done that found an archive with a sidecar not matching it
C4_Witness ==
    \E b \in Builders :
        /\ CacheMismatch(b)
        /\ pc[b] = "done"
        /\ SidecarPath(artifact_file_path[b]) \in DOMAIN before[b]

\* an earlier invocation stored an archive for the configuration as it is now, and
\* the archive and its sidecar were not touched since
StoredEarlier(b) ==
    /\ stored.path # ""
    /\ stored.by < builds
    /\ stored.recipe = recipeFile
    /\ stored.options = options

\* C5: after a from-source build stored its archive, a build that is not forced, with
\* the recipe content, architecture and options unchanged, looks up the path the
\* store step wrote, finds the archive valid, invokes no phase, and when it is done
\* the package directory holds the archive's members.
C5_StoreThenHit ==
    \A b \in Builders :
        (cache[b].asked /\ ~build_from_source[b] /\ StoredEarlier(b)) =>
            /\ artifact_file_path[b] = stored.path
            /\ cache[b].found /\ cache[b].valid
            /\ ~require_build[b]
            /\ phases[b] = <<>>
            /\ pc[b] \in {"extract", "done"}
            /\ pc[b] = "done" =>
                   /\ restored[b] # <<>>
                   /\ restored[b][1].path = stored.path
                   /\ PopulatedFrom(packageDir, artifactsDir.files[stored.path])

C5_Witness ==
    \E b \in Builders :
        /\ cache[b].asked /\ ~build_from_source[b] /\ StoredEarlier(b)
        /\ pc[b] = "done"
        /\ "bin" \in DOMAIN artifactsDir.files[stored.path]

\* C6: when a recipe phase exits non-zero, the invocation fails at once: the failed
\* phase is the last one invoked, the store step is not performed and the files of
\* the artifacts directory are those the invocation found.
C6_PhaseFailureAborts ==
    \A b \in Builders :
        \A k \in 1..Len(phases[b]) :
            phases[b][k].outcome = "fail" =>
                /\ k = Len(phases[b])
                /\ pc[b] = "failed"
                /\ error[b] = "Exception: Command failed"
                /\ output_archive_file[b] = ""
                /\ artifactsDir.files = before[b]

\* handle_package itself failed, over an artifacts directory that holds an archive
C6_Witness ==
    \E b \in Builders :
        /\ Len(phases[b]) = 4
        /\ phases[b][4].outcome = "fail"
        /\ DOMAIN before[b] # {}

(***************************************************************************)
(* Properties of source acquisition (SpecSources).                         *)
(***************************************************************************)
\* the strategies in the order of precedence, the repositories in configured order
Precedence == <<"url", "given", "recipe">> \o repositories

\* C7: when the file put in the source directory for the i-th declared source does
\* not have the declared checksum, acquisition raises: no later source is acquired,
\* the file is not extracted, no recipe phase runs and no artifact is stored.
C7_ChecksumMismatchAborts ==
    \A b \in Builders :
        \A k \in 1..Len(acquired[b]) :
            (acquired[b][k].content # "" /\ Sha256(acquired[b][k].content) # sha256sums[k]) =>
                /\ acquired[b][k].raised = "ValueError: hash mismatch"
                /\ k = Len(acquired[b])
                /\ idx[b] = k - 1
                /\ ~acquired[b][k].extracted
                /\ pc[b] = "failed"
                /\ error[b] = "ValueError: hash mismatch"
                /\ phases[b] = <<>>
                /\ artifactsDir.files = before[b]

\* the first of two sources, a tarball, failed its checksum
C7_Witness ==
    \E b \in Builders :
        /\ Len(sources) = 2
        /\ Len(acquired[b]) = 1
        /\ acquired[b][1].raised = "ValueError: hash mismatch"
        /\ is_tarfile(basename(sources[1]))

\* C8: each source is resolved by the first strategy that matches, in the order URL,
\* path as given, path under the recipe directory, path under each repository in
\* configured order; no other strategy is applied, so what lands in the source
\* directory comes from that origin (a URL that also exists under a repository is
\* downloaded, not copied).
C8_FirstMatchWins ==
    \A b \in Builders :
        \A k \in 1..Len(acquired[b]) :
            LET rec == acquired[b][k]
                found == WhereFound(rec.source)
            IN  /\ IF found = {}
                   THEN rec.strategy = "none"
                   ELSE \E p \in 1..Len(Precedence) :
                           /\ rec.strategy = Precedence[p]
                           /\ Precedence[p] \in found
                           /\ \A q \in 1..(p - 1) : Precedence[q] \notin found
                /\ rec.content # "" => rec.content = rec.strategy

\* a URL that also exists under a repository was downloaded
C8_Witness ==
    \E b \in Builders :
        \E k \in 1..Len(acquired[b]) :
            /\ is_url(acquired[b][k].source)
            /\ Outside(acquired[b][k].source).inRepos # {}
            /\ acquired[b][k].strategy = "url"
            /\ acquired[b][k].content = "url"

\* C9: a source that is no URL and no existing path as given, but exists under the
\* recipe directory, is copied from the recipe directory into the source directory,
\* and that copy is the file whose checksum is compared.
C9_RecipeRelativeCopied ==
    \A b \in Builders :
        \A k \in 1..Len(acquired[b]) :
            LET rec == acquired[b][k]
            IN  (/\ ~is_url(rec.source)
                 /\ ~Outside(rec.source).given
                 /\ Outside(rec.source).inRecipe) =>
                    /\ rec.strategy = "recipe"
                    /\ rec.content = "recipe"
                    /\ rec.checked

\* C10: a source that matches no strategy fails acquisition with the resolution
\* error before any checksum is compared; the invocation aborts, no later source is
\* acquired and no recipe phase runs.
C10_UnresolvedSourceAborts ==
    \A b \in Builders :
        \A k \in 1..Len(acquired[b]) :
            WhereFound(acquired[b][k].source) = {} =>
                /\ acquired[b][k].strategy = "none"
                /\ acquired[b][k].raised = "ValueError: not a valid URL or file path"
                /\ ~acquired[b][k].checked
                /\ k = Len(acquired[b])
                /\ pc[b] = "failed"
                /\ error[b] = "ValueError: not a valid URL or file path"
                /\ phases[b] = <<>>

\* the second of two sources matched no strategy
C10_Witness ==
    \E b \in Builders :
        /\ Len(acquired[b]) = 2
        /\ WhereFound(acquired[b][2].source) = {}
        /\ pc[b] = "failed"

(***************************************************************************)
(* Properties of ShellCommand.exec (SpecExec, SpecExecFair).               *)
(***************************************************************************)
\* exec has returned or raised
ExecOver == exec_pc \in {"returned", "raised"}

\* C11: when exec has returned or raised, the child has exited having written all
\* its lines, both reader threads have finished and emptied their pipes, and the
\* text accumulated for each stream, which is the text a returned result holds, is
\* every line the child wrote to that stream, in the order written.
C11_ExecReturnsAfterDrain ==
    ExecOver =>
        /\ process.state = "exited"
        /\ process.todo = <<>>
        /\ \A s \in Streams :
              /\ threads[s].pc = "finished"
              /\ pipes[s] = <<>>
              /\ outputString[s] = written[s]
        /\ exec_result.kind = "returned" =>
              /\ exec_result.stdout = written["stdout"]
              /\ exec_result.stderr = written["stderr"]

\* exec returned the output of a child that wrote to both streams and had to wait
\* for room in a pipe
C11_Witness ==
    /\ exec_pc = "returned"
    /\ exec_result.stdout # <<>>
    /\ exec_result.stderr # <<>>
    /\ blocked

\* C12: when exec with print_output has returned or raised, every line echoed to
\* sys.stdout or sys.stderr has been flushed: nothing is left in the stream's buffer
\* and the device received every line the child wrote to the stream.  Stated for
\* the streams of a terminal (both line-buffered), where the claim is the narrowest.
C12_EchoFlushedOnReturn ==
    (/\ ExecOver
     /\ exec_args.print_output
     /\ \A s \in Streams : destination[s].line_buffering) =>
        \A s \in Streams :
            /\ destination[s].buffer = <<>>
            /\ destination[s].device = written[s]

C14_ExecTerminates == <>(ExecOver /\ process.state = "exited")

\* exec is over for a child that had to wait for room in a pipe while it wrote to
\* both streams
C14_Witness ==
    /\ ExecOver
    /\ blocked
    /\ written["stdout"] # <<>>
    /\ written["stderr"] # <<>>
    /\ process.n = MaxLines

(***************************************************************************)
(* Properties of the fingerprint and of the environment (SpecOptions).     *)
(***************************************************************************)
\* the option set of a dict: its name/value pairs, whatever the insertion order
OptionSet(d) == {d[i] : i \in 1..Len(d)}

\* C15: Package objects of the same recipe content and architecture whose options
\* hold the same name/value pairs, in whatever insertion order, get the same
\* fingerprint, and every call on one object returns the same value.
C15_FingerprintDeterministic ==
    \A p, q \in PackageObjects :
        OptionSet(packages[p]) = OptionSet(packages[q]) =>
            \A i \in 1..Len(digests[p]) :
                \A j \in 1..Len(digests[q]) : digests[p][i] = digests[q][j]

\* two objects hold the same two options inserted in different orders; the
\* fingerprint of one was computed twice, that of the other once
C15_Witness ==
    /\ packages[1] # packages[2]
    /\ OptionSet(packages[1]) = OptionSet(packages[2])
    /\ Len(digests[1]) = 2
    /\ Len(digests[2]) >= 1

\* C16: for the same recipe content and architecture, two different option sets
\* never get the same fingerprint (the digest taken as injective).
C16_OptionsChangeFingerprint ==
    \A p, q \in PackageObjects :
        (/\ OptionSet(packages[p]) # OptionSet(packages[q])
         /\ digests[p] # <<>>
         /\ digests[q] # <<>>) => digests[p][1] # digests[q][1]

\* C17: the environment holds option_<lower-cased name>=1 for an option exactly
\* when the option is enabled (mapped to True).
C17_EnabledOptionsOnly ==
    \A p \in PackageObjects :
        environments[p] # NotComputed =>
            \A k \in 1..Len(OptionNames) :
                LET name == "option_" \o lower(OptionNames[k])
                IN  (/\ name \in DOMAIN environments[p]
                     /\ environments[p][name] = "1")
                        <=> <<OptionNames[k], TRUE>> \in OptionSet(packages[p])

(***************************************************************************)
(* Order and frame of the build lifecycle.                                 *)
(***************************************************************************)
\* s is an initial part of t
IsPrefix(s, t) == Len(s) <= Len(t) /\ \A k \in 1..Len(s) : s[k] = t[k]

\* C18: in a build attempt the sources are acquired in declaration order, each
\* after the one before it was acquired and verified; the phases run in the order
\* handle_sources, handle_build, handle_check, handle_package, each at most once
\* and after the one before it succeeded; handle_sources runs only after every
\* declared source was acquired and verified (at once when none is declared); the
\* artifacts directory is written only after all four phases.
C18_LifecycleOrder ==
    \A b \in Builders :
        /\ Len(acquired[b]) <= Len(sources)
        /\ \A k \in 1..Len(acquired[b]) :
              /\ acquired[b][k].index = k - 1
              /\ acquired[b][k].source = sources[k]
              /\ k < Len(acquired[b]) =>
                    acquired[b][k].raised = "" /\ acquired[b][k].checked
        /\ IsPrefix(PhaseCalls(b), PhaseNames)
        /\ \A k \in 1..Len(phases[b]) :
              k < Len(phases[b]) => phases[b][k].outcome # "fail"
        /\ phases[b] # <<>> =>
              /\ Len(acquired[b]) = Len(sources)
              /\ \A k \in 1..Len(acquired[b]) :
                    acquired[b][k].raised = "" /\ acquired[b][k].checked
        /\ (pc[b] \in {"compress", "write_hash", "write_sidecar"}
                \/ (pc[b] # "idle" /\ artifactsDir.files # before[b])) =>
              /\ PhaseCalls(b) = PhaseNames
              /\ phases[b][4].outcome # "fail"

\* a build with two declared sources ran all four phases and stored its archive
C18_Witness ==
    \E b \in Builders :
        /\ pc[b] = "done"
        /\ Len(sources) = 2
        /\ Len(acquired[b]) = 2
        /\ PhaseCalls(b) = PhaseNames
        /\ artifactsDir.files # before[b]

\* C19: every run of the workspace preparation, the one at the start of build()
\* and the second one on the rebuild path, leaves the source directory existing and
\* empty and the artifacts directory existing with its files untouched.
C19_PreparationFrame ==
    [][\A b \in Builders :
          (pc[b] \in {"prepare", "prepare_rebuild"} /\ pc'[b] # pc[b]) =>
              /\ sourceDir' = EmptyDir
              /\ artifactsDir'.exists
              /\ artifactsDir'.files = artifactsDir.files]_vars

\* a later build of a package with sources, whose earlier build stored an archive,
\* has just run the preparation a second time
C19_Witness ==
    \E b \in Builders :
        /\ pc[b] = "sources"
        /\ acquired[b] = <<>>
        /\ Len(sources) > 0
        /\ builds = 2
        /\ sourceDir = EmptyDir
        /\ \E path \in DOMAIN artifactsDir.files :
              check_file_hash_from_file(artifactsDir, path)

\* C20: the store step writes the archive before the sidecar: nothing is written
\* before the archive, the sidecar is written when the archive holds the whole
\* package directory, and when _handle_package has returned the sidecar is the
\* checksum of the archive, so the archive verifies.
C20_ArchiveThenSidecar ==
    \A b \in Builders :
        /\ pc[b] = "compress" => artifactsDir.files = before[b]
        /\ pc[b] \in {"write_hash", "write_sidecar"} =>
              /\ Exists(artifactsDir, output_archive_file[b])
              /\ artifactsDir.files[output_archive_file[b]] = compress_tar(packageDir)
        /\ pc[b] = "write_sidecar" => file_hash[b] = Sha256(compress_tar(packageDir))
        /\ (pc[b] = "done" /\ require_build[b]) =>
              /\ Exists(artifactsDir, output_archive_file[b])
              /\ artifactsDir.files[SidecarPath(output_archive_file[b])]
                    = Sha256(compress_tar(packageDir))
              /\ check_file_hash_from_file(artifactsDir, output_archive_file[b])

\* _handle_package returned after it replaced an archive and its sidecar by others
C20_Witness ==
    \E b \in Builders :
        /\ pc[b] = "done"
        /\ require_build[b]
        /\ SidecarPath(output_archive_file[b]) \in DOMAIN before[b]
        /\ before[b][SidecarPath(output_archive_file[b])]
              # artifactsDir.files[SidecarPath(output_archive_file[b])]

(***************************************************************************)
(* Recipes that do not define a phase function.                            *)
(***************************************************************************)
\* the statement build() is at after the k-th phase returned
AfterPhase(k) ==
    IF k < 4 THEN {PhaseNames[k + 1]} ELSE {"compress", "write_hash", "write_sidecar", "done", "failed"}

\* C21: a phase whose function the recipe does not declare is skipped: the shell
\* calls no function and exits zero, the invocation does not fail on it and goes on
\* to the next phase; a from-source build of a recipe that declares none of the
\* four functions, when it is done, has gone through all four phases, skipped each
\* and stored an archive that verifies.
C21_MissingPhaseIsNoOp ==
    \A b \in Builders :
        /\ \A k \in 1..Len(phases[b]) :
              phases[b][k].name \notin Declares(recipeFile) =>
                  /\ phases[b][k].outcome = "skipped"
                  /\ ExitCode(phases[b][k].outcome) = 0
                  /\ error[b] # "Exception: Command failed"
                  /\ k = Len(phases[b]) => pc[b] \in AfterPhase(k) \ {"failed"}
        /\ (pc[b] = "done" /\ require_build[b] /\ Declares(recipeFile) = {}) =>
              /\ PhaseCalls(b) = PhaseNames
              /\ \A k \in 1..4 : phases[b][k].outcome = "skipped"
              /\ check_file_hash_from_file(artifactsDir, artifact_file_path[b])

\* a from-source build of a recipe without any phase function is done
C21_Witness ==
    \E b \in Builders :
        /\ pc[b] = "done"
        /\ require_build[b]
        /\ Declares(recipeFile) = {}
        /\ Len(phases[b]) = 4
        /\ Exists(artifactsDir, artifact_file_path[b])

(***************************************************************************)
(* Two invocations at once.                                                *)
(***************************************************************************)
\* the invocations under way
Underway == {b \in Builders : pc[b] \notin {"idle", "done", "failed"}}

\* C22: nothing arbitrates between two build invocations of one package: an
\* invocation under way can take its next step whatever the other one is doing, its
\* workspace preparation and its writes of the archive and sidecar included.
C22_NoArbitration ==
    \A b \in Underway : ENABLED Build(b)

\* both invocations stored the same archive path, the sidecar left behind is not the
\* checksum of the archive, and one invocation's fetched sources were deleted by the
\* other's workspace preparation
C22_Witness ==
    /\ \A b \in Builders : pc[b] = "done" /\ require_build[b]
    /\ output_archive_file[1] = output_archive_file[2]
    /\ Exists(artifactsDir, output_archive_file[1])
    /\ Exists(artifactsDir, SidecarPath(output_archive_file[1]))
    /\ ~check_file_hash_from_file(artifactsDir, output_archive_file[1])
    /\ \E b \in Builders : clobbered[b]

(***************************************************************************)
(* Builds stopped between the archive and its sidecar (SpecCrash).         *)
(***************************************************************************)
\* the invocation is the first one after an invocation was stopped short of the
\* sidecar, it is not forced and it looks up the archive that one wrote
AfterInterrupted(b) ==
    /\ cache[b].asked
    /\ ~build_from_source[b]
    /\ interrupted.path = artifact_file_path[b]
    /\ interrupted.by + 1 = builds

\* the invocation extracted the archive at its fingerprint path
Extracted(b) == restored[b] # <<>> /\ restored[b][1].found

\* C23 as stated: the build that follows an invocation stopped between writing new
\* archive content and writing the sidecar does not extract that archive.
C23_InterruptedNeverExtracted ==
    \A b \in Builders :
        AfterInterrupted(b) => ~Extracted(b) /\ pc[b] # "extract"

\* C23, amended: the build that follows an invocation stopped between writing new
\* archive content and writing the sidecar does not extract that archive unless the
\* sidecar an earlier store left is the checksum of the new content; whenever an
\* archive was extracted on the cache-hit path, its content matches its sidecar and
\* it is what was extracted.
C23_ExtractedIsVerified ==
    \A b \in Builders :
        /\ (AfterInterrupted(b) /\ ~cache[b].valid) =>
              /\ require_build[b]
              /\ ~Extracted(b)
              /\ pc[b] # "extract"
        /\ Extracted(b) =>
              /\ cache[b].valid
              /\ check_file_hash_from_file(artifactsDir, restored[b][1].path)
              /\ restored[b][1].members = artifactsDir.files[restored[b][1].path]

\* the build that follows an invocation stopped short of the sidecar found the new
\* archive next to the sidecar of the archive it replaced, and rebuilt
C23_Witness ==
    \E b \in Builders :
        /\ AfterInterrupted(b)
        /\ pc[b] = "done"
        /\ require_build[b]
        /\ cache[b].found
        /\ SidecarPath(artifact_file_path[b]) \in DOMAIN before[b]
        /\ before[b][SidecarPath(artifact_file_path[b])]
              # Sha256(before[b][artifact_file_path[b]])

(***************************************************************************)
(* The cache-hit path and the artifacts directory.                         *)
(***************************************************************************)
\* C24: a build on the cache-hit path leaves the artifacts directory as it found it,
\* the archive and its sidecar still there and matching; after a cache hit, and until
\* the recipe, the options or the artifacts change, every build that is not forced
\* is a cache hit again.
C24_CacheHitKeepsArtifacts ==
    \A b \in Builders :
        /\ CacheHit(b) =>
              /\ artifactsDir.exists
              /\ artifactsDir.files = before[b]
              /\ check_file_hash_from_file(artifactsDir, artifact_file_path[b])
        /\ (hits >= 1 /\ cache[b].asked /\ ~build_from_source[b]) =>
              /\ CacheHit(b)
              /\ ~require_build[b]
              /\ pc[b] \in {"extract", "done"}

\* the second of two cache hits in a row is done
C24_Witness ==
    \E b \in Builders :
        /\ CacheHit(b)
        /\ pc[b] = "done"
        /\ hits = 2
        /\ DOMAIN before[b] # {}

(***************************************************************************)
(* PackageManager.find_package (SpecFind).                                 *)
(***************************************************************************)
\* the recipes an atom may have: repositories in configured order, within one
\* repository streams in configured order, within one repository and stream
\* <name>-<version>.sh before <name>-<version>-<release>.sh
Candidates(atom) ==
    {[rank |-> ((i - 1) * Len(package_streams) + (j - 1)) * 2 + q,
      path |-> IF q = 1
               THEN recipe_path(repositories[i], package_streams[j], atom)
               ELSE recipe_path2(repositories[i], package_streams[j], atom)] :
        i \in 1..Len(repositories), j \in 1..Len(package_streams), q \in {1, 2}}

Existing(atom) == {c \in Candidates(atom) : c.path \in disk}

\* the first existing recipe of an atom
FirstExisting(atom) ==
    (CHOOSE c \in Existing(atom) : \A d \in Existing(atom) : c.rank <= d.rank).path

\* the atom strings that name a package: a name, or a name and a version or
\* version-release
WellFormed == {"zlib", "zlib/latest", "zlib/1.3", "zlib/1.3-0", "zlib/1.3-2"}

\* every Package constructed is kept under its atom
Memoized ==
    /\ Cardinality(DOMAIN manager_packages) = objects
    /\ \A a \in DOMAIN manager_packages :
          /\ manager_packages[a].atom = a
          /\ manager_packages[a].id \in 1..objects
    /\ \A a, c \in DOMAIN manager_packages :
          manager_packages[a].id = manager_packages[c].id => a = c

\* the call found the first existing recipe of `atom` and returned the Package kept
\* for the atom
FoundFirst(atom) ==
    /\ find_result.kind = "returned"
    /\ find_result.package.atom = atom
    /\ find_result.package.recipe_path = FirstExisting(atom)
    /\ atom \in DOMAIN manager_packages
    /\ find_result.package = manager_packages[atom]

\* the call ended as one that found no recipe
NotFound ==
    find_result.kind = IF find_result.throw_on_failure THEN "raised" ELSE "none"

\* C25: find_package returns the first existing recipe, repositories in configured
\* order, streams in configured order within a repository, <name>-<version>.sh before
\* <name>-<version>-<release>.sh; the Package found is kept, so a later call for the
\* same atom returns the same object; when no recipe exists the call raises if
\* throw_on_failure is set and returns None otherwise.
C25_FindPackage ==
    /\ Memoized
    /\ find_result.package_atom \in WellFormed =>
          LET atom == resolve_package_atom_info(find_result.package_atom, latest_files)
          IN  IF ~atom.raised /\ Existing(atom.value) # {}
              THEN FoundFirst(atom.value)
              ELSE NotFound

\* what holds of find_package: the same, for the calls whose atom string resolves to
\* a name, version and release
C25_ResolvedAtomFound ==
    /\ Memoized
    /\ find_result.package_atom \in WellFormed =>
          LET atom == resolve_package_atom_info(find_result.package_atom, latest_files)
          IN  IF atom.raised
              THEN find_result.kind = "raised"
              ELSE IF Existing(atom.value) # {}
                   THEN FoundFirst(atom.value)
                   ELSE NotFound

\* a second Package was found for a second atom, in the second repository, while a
\* recipe of the release-numbered name exists in the first stream of it
C25_Found ==
    /\ objects = 2
    /\ find_result.kind = "returned"
    /\ find_result.package.id = 2
    /\ Cardinality(Existing(find_result.package.atom)) = 2

====
